---- MODULE Spec2Model ----
(***************************************************************************)
(* Crop / gravity resolution engine of imgproxy (processing/crop.go) and   *)
(* the Prometheus metrics sink that shares the source file.                *)
(*                                                                         *)
(* The engine is modelled functionally: cropImage, crop and cropToResult   *)
(* are operators that return the outcome of one call (the error returned,  *)
(* the rectangle handed to img.Crop, the image size afterwards); the       *)
(* actions apply them to the image the request owns.                       *)
(*                                                                         *)
(* gravity.X / gravity.Y are float64 in the source.  They are kept here in *)
(* HALF pixels (X = 3 stands for 1.5), so that the int() conversion of the *)
(* source, which truncates toward zero, is a real conversion.              *)
(***************************************************************************)
EXTENDS Integers, Sequences, FiniteSets, TLC

----------------------------------------------------------------------------
(* Bounds of the model                                                     *)

\* largest side of the small images
MaxDim == 3
\* largest Smart offset, in half pixels
MaxOff == 2
\* request rotations range over -MaxTurns*90 .. MaxTurns*90
MaxTurns == 3
\* calls made to the metrics package in one run
MaxCalls == 5

----------------------------------------------------------------------------
(* Values                                                                  *)

NoError == "nil"
InvalidGeometry == "InvalidGeometry"
VipsFailure == "VipsFailure"

GravityCenter == "ce"
GravityNorth == "no"
GravitySouth == "so"
GravityEast == "ea"
GravityWest == "we"
GravityNorthEast == "noea"
GravityNorthWest == "nowe"
GravitySouthEast == "soea"
GravitySouthWest == "sowe"
GravitySmart == "sm"
GravityOffset == "abs"

AnchorTypes == {GravityCenter, GravityNorth, GravitySouth, GravityEast,
                GravityWest, GravityNorthEast, GravityNorthWest,
                GravitySouthEast, GravitySouthWest}
GravityTypes == AnchorTypes \cup {GravitySmart, GravityOffset}

ResizeFit == "fit"
ResizeFill == "fill"
ResizeFillDown == "fill-down"
ResizeTypes == {ResizeFit, ResizeFill, ResizeFillDown}

----------------------------------------------------------------------------
(* Arithmetic of the source language                                       *)

\* Go's int(float64): truncation toward zero; x is in half pixels
GoInt(x) == IF x >= 0 THEN x \div 2 ELSE -((-x) \div 2)

\* Go's a % b for b > 0: the result has the sign of a
GoRem(a, b) == IF a >= 0 THEN a % b ELSE -((-a) % b)

\* Go's a / b on ints for b > 0: truncation toward zero
GoDiv(a, b) == IF a >= 0 THEN a \div b ELSE -((-a) \div b)

Min(a, b) == IF a < b THEN a ELSE b
Max(a, b) == IF a > b THEN a ELSE b

\* imath.MinNonZero(requested, source)
MinNonZero(a, b) == IF a = 0 THEN b ELSE Min(a, b)

\* imath.Scale(a, float64(num)/float64(den)): a*num/den rounded to the
\* nearest integer, halves away from zero (a, num >= 0, den > 0).  The
\* float64 product is taken as exact.
Scale(a, num, den) == (2 * a * num + den) \div (2 * den)

----------------------------------------------------------------------------
(* Collaborators of the engine that live outside processing/crop.go        *)

Clamp(v, lo, hi) == Max(lo, Min(v, hi))

\* Anchor of one axis before the offset is added: 0, the centre or the far
\* end of the free space
AnchorLeft(t, free) ==
    IF t \in {GravityWest, GravityNorthWest, GravitySouthWest} THEN 0
    ELSE IF t \in {GravityEast, GravityNorthEast, GravitySouthEast} THEN free
    ELSE GoDiv(free, 2)

AnchorTop(t, free) ==
    IF t \in {GravityNorth, GravityNorthEast, GravityNorthWest} THEN 0
    ELSE IF t \in {GravitySouth, GravitySouthEast, GravitySouthWest} THEN free
    ELSE GoDiv(free, 2)

\* calcPosition(width, height, innerWidth, innerHeight, gravity, false):
\* the top-left corner of the crop rectangle.  Anchors add the offset and
\* clamp; the Smart mode that reaches the resolver is the Center anchor
\* without offset; the absolute-offset mode is the offset, clamped.
calcPosition(width, height, innerWidth, innerHeight, gravity) ==
    LET freeW == width - innerWidth
        freeH == height - innerHeight
        offX == GoInt(gravity.X)
        offY == GoInt(gravity.Y)
        t == gravity.Type
        left == IF t = GravitySmart THEN GoDiv(freeW, 2)
                ELSE IF t = GravityOffset THEN offX
                ELSE AnchorLeft(t, freeW) + offX
        top == IF t = GravitySmart THEN GoDiv(freeH, 2)
               ELSE IF t = GravityOffset THEN offY
               ELSE AnchorTop(t, freeH) + offY
    IN  <<Clamp(left, 0, freeW), Clamp(top, 0, freeH)>>

\* The geometry contract of the in-place crop
ValidArea(w, h, left, top, width, height) ==
    /\ left >= 0
    /\ top >= 0
    /\ width > 0
    /\ height > 0
    /\ left + width <= w
    /\ top + height <= h

\* img.Crop(left, top, width, height) on a w x h image.  fault is the error
\* the native call raises on its own (NoError when it raises none).
\* On success the image takes the size of the rectangle.
Crop(w, h, left, top, width, height, fault) ==
    IF ~ValidArea(w, h, left, top, width, height)
    THEN [err |-> InvalidGeometry, w |-> w, h |-> h]
    ELSE IF fault # NoError
    THEN [err |-> fault, w |-> w, h |-> h]
    ELSE [err |-> NoError, w |-> width, h |-> height]

----------------------------------------------------------------------------
(* processing/crop.go                                                      *)

\* The outcome of a cropImage call that returned before img.Crop
Skipped(imgWidth, imgHeight) ==
    [err |-> NoError, cropErr |-> NoError, called |-> FALSE, shortcut |-> FALSE,
     left |-> 0, top |-> 0, width |-> 0, height |-> 0,
     w |-> imgWidth, h |-> imgHeight]

\* Mutant of Cropped: the error of img.Crop is not returned
Cropped_ErrorDropped(imgWidth, imgHeight, left, top, width, height, fault, shortcut) ==
    LET r == Crop(imgWidth, imgHeight, left, top, width, height, fault)
    IN  [err |-> NoError, cropErr |-> r.err, called |-> TRUE, shortcut |-> shortcut,
         left |-> left, top |-> top, width |-> width, height |-> height,
         w |-> r.w, h |-> r.h]

\* The outcome of `return img.Crop(left, top, width, height)`
Cropped(imgWidth, imgHeight, left, top, width, height, fault, shortcut) ==
    LET r == Crop(imgWidth, imgHeight, left, top, width, height, fault)
    IN  [err |-> r.err, cropErr |-> r.err, called |-> TRUE, shortcut |-> shortcut,
         left |-> left, top |-> top, width |-> width, height |-> height,
         w |-> r.w, h |-> r.h]

\* The part of cropImage after its two early returns
cropClamped(imgWidth, imgHeight, cw, ch, gravity, fault) ==
    IF /\ gravity.Type = GravitySmart
       /\ GoInt(gravity.X) + cw <= imgWidth
       /\ GoInt(gravity.Y) + ch <= imgHeight
    THEN Cropped(imgWidth, imgHeight, GoInt(gravity.X), GoInt(gravity.Y),
                 cw, ch, fault, TRUE)
    ELSE
      LET pos == calcPosition(imgWidth, imgHeight, cw, ch, gravity)
      IN  Cropped(imgWidth, imgHeight, pos[1], pos[2], cw, ch, fault, FALSE)

\* Mutant of cropImage: both early returns are missing
cropImage_NoEarlyReturn(imgWidth, imgHeight, cropWidth, cropHeight, gravity, fault) ==
    cropClamped(imgWidth, imgHeight, MinNonZero(cropWidth, imgWidth),
                MinNonZero(cropHeight, imgHeight), gravity, fault)

\* Mutant of cropImage: the skip test is > instead of >=
cropImage_StrictSkip(imgWidth, imgHeight, cropWidth, cropHeight, gravity, fault) ==
    IF cropWidth = 0 /\ cropHeight = 0
    THEN Skipped(imgWidth, imgHeight)
    ELSE
      LET cw == MinNonZero(cropWidth, imgWidth)
          ch == MinNonZero(cropHeight, imgHeight)
      IN  IF cw > imgWidth /\ ch > imgHeight
          THEN Skipped(imgWidth, imgHeight)
          ELSE cropClamped(imgWidth, imgHeight, cw, ch, gravity, fault)

\* Mutant of cropImage: the error of img.Crop is dropped
cropImage_SwallowError(imgWidth, imgHeight, cropWidth, cropHeight, gravity, fault) ==
    IF cropWidth = 0 /\ cropHeight = 0
    THEN Skipped(imgWidth, imgHeight)
    ELSE
      LET cw == MinNonZero(cropWidth, imgWidth)
          ch == MinNonZero(cropHeight, imgHeight)
      IN  IF cw >= imgWidth /\ ch >= imgHeight
          THEN Skipped(imgWidth, imgHeight)
          ELSE [cropClamped(imgWidth, imgHeight, cw, ch, gravity, fault)
                  EXCEPT !.err = NoError]

\* cropImage(img, cropWidth, cropHeight, gravity) on an imgWidth x imgHeight
\* image
cropImage(imgWidth, imgHeight, cropWidth, cropHeight, gravity, fault) ==
    IF cropWidth = 0 /\ cropHeight = 0
    THEN Skipped(imgWidth, imgHeight)
    ELSE
      LET cw == MinNonZero(cropWidth, imgWidth)
          ch == MinNonZero(cropHeight, imgHeight)
      IN  IF cw >= imgWidth /\ ch >= imgHeight
          THEN Skipped(imgWidth, imgHeight)
          ELSE cropClamped(imgWidth, imgHeight, cw, ch, gravity, fault)

\* The (width, height) crop() passes to cropImage
cropSize(cropWidth, cropHeight, angle, rotate) ==
    IF GoRem(angle + rotate, 180) = 90
    THEN <<cropHeight, cropWidth>>
    ELSE <<cropWidth, cropHeight>>

\* Mutant of resultCropSize: the axes are clamped but never rescaled
resultCropSize_ClampOnly(resizingType, resultWidth, resultHeight, imgWidth, imgHeight) ==
    IF resizingType = ResizeFillDown
    THEN <<Min(resultWidth, imgWidth), Min(resultHeight, imgHeight)>>
    ELSE <<resultWidth, resultHeight>>

\* Mutant of resultCropSize: the correction of the height axis is missing
resultCropSize_WidthOnly(resizingType, resultWidth, resultHeight, imgWidth, imgHeight) ==
    IF resizingType = ResizeFillDown /\ resultWidth > imgWidth
    THEN <<imgWidth, Scale(resultHeight, imgWidth, resultWidth)>>
    ELSE <<resultWidth, resultHeight>>

\* The (resultWidth, resultHeight) cropToResult() passes to cropImage
resultCropSize(resizingType, resultWidth, resultHeight, imgWidth, imgHeight) ==
    IF resizingType = ResizeFillDown
    THEN
      LET h1 == IF resultWidth > imgWidth
                THEN Scale(resultHeight, imgWidth, resultWidth)
                ELSE resultHeight
          w1 == IF resultWidth > imgWidth THEN imgWidth ELSE resultWidth
          w2 == IF h1 > imgHeight THEN Scale(w1, imgHeight, h1) ELSE w1
          h2 == IF h1 > imgHeight THEN imgHeight ELSE h1
      IN  <<w2, h2>>
    ELSE <<resultWidth, resultHeight>>

\* crop(pctx, img, po, imgdata): opts is pctx.cropGravity after the two
\* RotateAndFlip calls
crop(imgWidth, imgHeight, cropWidth, cropHeight, angle, rotate, opts, fault) ==
    LET s == cropSize(cropWidth, cropHeight, angle, rotate)
    IN  cropImage(imgWidth, imgHeight, s[1], s[2], opts, fault)

\* cropToResult(pctx, img, po, imgdata)
cropToResult(imgWidth, imgHeight, resizingType, resultWidth, resultHeight, gravity, fault) ==
    LET s == resultCropSize(resizingType, resultWidth, resultHeight, imgWidth, imgHeight)
    IN  cropImage(imgWidth, imgHeight, s[1], s[2], gravity, fault)

\* GravityOptions.RotateAndFlip(angle, flip): the gravity re-expressed in a
\* rotated and flipped frame.  Its result is not determined here: an anchor
\* stays in its family (centre, edge, corner), and the offsets keep their
\* magnitudes up to a swap of the axes and a change of sign.
SameFamily(t) ==
    IF t \in {GravityNorth, GravitySouth, GravityEast, GravityWest}
    THEN {GravityNorth, GravitySouth, GravityEast, GravityWest}
    ELSE IF t \in {GravityNorthEast, GravityNorthWest, GravitySouthEast, GravitySouthWest}
    THEN {GravityNorthEast, GravityNorthWest, GravitySouthEast, GravitySouthWest}
    ELSE {t}

RotateAndFlip(g, angle, flip) ==
    IF GoRem(angle, 360) = 0 /\ ~flip
    THEN {g}
    ELSE {[Type |-> t, X |-> sx * o[1], Y |-> sy * o[2]] :
            t \in SameFamily(g.Type),
            o \in {<<g.X, g.Y>>, <<g.Y, g.X>>},
            sx \in {1, -1}, sy \in {1, -1}}

\* pctx.cropGravity after opts.RotateAndFlip(pctx.angle, pctx.flip) and
\* opts.RotateAndFlip(po.Rotate, false)
Reoriented(g, angle, flip, rotate) ==
    UNION {RotateAndFlip(o, rotate, FALSE) : o \in RotateAndFlip(g, angle, flip)}

----------------------------------------------------------------------------
(* Inputs                                                                  *)

Images == ((1..MaxDim) \X (1..MaxDim)) \cup {<<100, 100>>, <<400, 600>>}

CropSizes == ((0..MaxDim + 1) \X (0..MaxDim + 1)) \cup {<<50, 50>>}

\* Smart offsets in half pixels: negative, fractional, fitting and not
SmartOffsets == (-2..MaxOff) \X (-2..MaxOff)

Gravities ==
    {[Type |-> t, X |-> o[1], Y |-> o[2]] :
        t \in GravityTypes \ {GravitySmart},
        o \in {<<0, 0>>, <<-2, 3>>, <<8, -8>>}}
    \cup {[Type |-> GravitySmart, X |-> o[1], Y |-> o[2]] : o \in SmartOffsets}
    \cup {[Type |-> GravitySmart, X |-> 20, Y |-> 20],
          [Type |-> GravitySmart, X |-> 120, Y |-> 120]}

\* Inputs of the two pipeline stages
StageCropSizes == {<<0, 2>>, <<1, 2>>, <<2, 2>>, <<100, 50>>}

StageGravities ==
    {[Type |-> GravityCenter, X |-> 0, Y |-> 0],
     [Type |-> GravityNorth, X |-> 0, Y |-> 0],
     [Type |-> GravitySmart, X |-> 2, Y |-> 0]}

Angles == {0, 90, 180, 270}

Rotations == {90 * k : k \in -MaxTurns..MaxTurns}

ResultSizes == ((0..MaxDim + 1) \X (0..MaxDim + 1)) \cup {<<800, 600>>}

Faults == {NoError, VipsFailure}

----------------------------------------------------------------------------
(* The request pipeline: one image, processed by one stage at a time       *)

VARIABLES img, call

\* package prometheus: the package variables, the default registry, the
\* metrics server and the cancel functions handed out
VARIABLES bind, enabled, collectors, registered, samples, server, cancelled,
          cancels, ret, crashed, lastOp, ncalls

cropVars == <<img, call>>

metricsVars == <<bind, enabled, collectors, registered, samples, server,
                 cancelled, cancels, ret, crashed, lastOp, ncalls>>

vars == <<img, call, bind, enabled, collectors, registered, samples, server,
          cancelled, cancels, ret, crashed, lastOp, ncalls>>

NoGravity == [Type |-> GravityCenter, X |-> 0, Y |-> 0]

NoCall ==
    [op |-> "none", repeat |-> FALSE, prevCalled |-> FALSE, imgWidth |-> 0, imgHeight |-> 0,
     cropWidth |-> 0, cropHeight |-> 0, gravity |-> NoGravity,
     angle |-> 0, flip |-> FALSE, rotate |-> 0, resizingType |-> ResizeFit,
     passWidth |-> 0, passHeight |-> 0, opts |-> NoGravity,
     fault |-> NoError, out |-> Skipped(0, 0)]

\* The collectors Init() creates and registers
InitCollectors ==
    {"requests_total", "errors_total", "request_duration_seconds",
     "request_span_duration_seconds", "download_duration_seconds",
     "processing_duration_seconds", "buffer_size_bytes",
     "buffer_default_size_bytes", "buffer_max_size_bytes",
     "requests_in_progress", "images_in_progress"}

\* The time series the package writes to (collector, label value)
SampleKeys ==
    {<<"requests_total", "">>, <<"errors_total", "timeout">>,
     <<"request_duration_seconds", "">>,
     <<"request_span_duration_seconds", "queue">>,
     <<"request_span_duration_seconds", "downloading">>,
     <<"request_span_duration_seconds", "processing">>,
     <<"download_duration_seconds", "">>, <<"processing_duration_seconds", "">>,
     <<"buffer_size_bytes", "download">>,
     <<"buffer_default_size_bytes", "download">>,
     <<"buffer_max_size_bytes", "download">>}

\* Names AddGaugeFunc is called with: a new one and one Init() registered
GaugeNames == {"vips_memory_bytes", "requests_in_progress"}

BindAddresses == {"", ":9090"}

ListenError == "Can't start Prometheus metrics server"

\* Metrics are off and nothing of the package has been called
MetricsIdle ==
    /\ enabled = FALSE
    /\ collectors = {}
    /\ registered = {}
    /\ samples = [k \in SampleKeys |-> 0]
    /\ server = "none"
    /\ cancelled = FALSE
    /\ cancels = {}
    /\ ret = NoError
    /\ crashed = FALSE
    /\ lastOp = "none"
    /\ ncalls = 0

Init ==
    /\ img \in {[w |-> i[1], h |-> i[2]] : i \in Images}
    /\ call = NoCall
    /\ bind = ""
    /\ MetricsIdle

\* A new request brings its own image
LoadImage ==
    /\ call.op = "none"
    /\ img' \in {[w |-> i[1], h |-> i[2]] : i \in Images}
    /\ call' = NoCall
    /\ UNCHANGED metricsVars

\* The stage returns success to the pipeline, which goes on with the image
\* (an error ends the request)
Return ==
    /\ call.op # "none"
    /\ call.out.err = NoError
    /\ call' = NoCall
    /\ UNCHANGED img
    /\ UNCHANGED metricsVars

\* cropImage(img, cropWidth, cropHeight, gravity)
CallCropImage ==
    /\ call.op = "none"
    /\ UNCHANGED metricsVars
    /\ \E c \in CropSizes, g \in Gravities, f \in Faults :
        LET out == cropImage(img.w, img.h, c[1], c[2], g, f)
        IN  /\ img' = [w |-> out.w, h |-> out.h]
            /\ call' = [NoCall EXCEPT !.op = "cropImage",
                          !.imgWidth = img.w, !.imgHeight = img.h,
                          !.cropWidth = c[1], !.cropHeight = c[2],
                          !.gravity = g, !.opts = g,
                          !.passWidth = c[1], !.passHeight = c[2],
                          !.fault = f, !.out = out]

\* cropImage called again with the arguments of a call that succeeded
RepeatCropImage ==
    /\ call.op = "cropImage"
    /\ ~call.repeat
    /\ UNCHANGED metricsVars
    /\ call.out.err = NoError
    /\ \E f \in Faults :
         LET out == cropImage(img.w, img.h, call.cropWidth, call.cropHeight,
                              call.gravity, f)
         IN  /\ img' = [w |-> out.w, h |-> out.h]
             /\ call' = [call EXCEPT !.repeat = TRUE,
                           !.prevCalled = call.out.called,
                           !.imgWidth = img.w, !.imgHeight = img.h,
                           !.fault = f, !.out = out]

\* crop(pctx, img, po, imgdata)
CallCrop ==
    /\ call.op = "none"
    /\ UNCHANGED metricsVars
    /\ \E c \in StageCropSizes, g \in StageGravities, a \in Angles,
          fl \in BOOLEAN, r \in Rotations, f \in Faults :
        \E opts \in Reoriented(g, a, fl, r) :
          LET s == cropSize(c[1], c[2], a, r)
              out == crop(img.w, img.h, c[1], c[2], a, r, opts, f)
          IN  /\ img' = [w |-> out.w, h |-> out.h]
              /\ call' = [NoCall EXCEPT !.op = "crop",
                            !.imgWidth = img.w, !.imgHeight = img.h,
                            !.cropWidth = c[1], !.cropHeight = c[2],
                            !.gravity = g, !.opts = opts,
                            !.angle = a, !.flip = fl, !.rotate = r,
                            !.passWidth = s[1], !.passHeight = s[2],
                            !.fault = f, !.out = out]

\* cropToResult(pctx, img, po, imgdata)
CallCropToResult ==
    /\ call.op = "none"
    /\ UNCHANGED metricsVars
    /\ \E rt \in ResizeTypes, n \in ResultSizes, g \in StageGravities, f \in Faults :
      LET s == resultCropSize(rt, n[1], n[2], img.w, img.h)
          out == cropToResult(img.w, img.h, rt, n[1], n[2], g, f)
      IN  /\ img' = [w |-> out.w, h |-> out.h]
          /\ call' = [NoCall EXCEPT !.op = "cropToResult",
                        !.imgWidth = img.w, !.imgHeight = img.h,
                        !.cropWidth = n[1], !.cropHeight = n[2],
                        !.gravity = g, !.opts = g, !.resizingType = rt,
                        !.passWidth = s[1], !.passHeight = s[2],
                        !.fault = f, !.out = out]

Next ==
    \/ LoadImage
    \/ Return
    \/ CallCropImage
    \/ RepeatCropImage
    \/ CallCrop
    \/ CallCropToResult

Spec == Init /\ [][Next]_vars

----------------------------------------------------------------------------
(* Properties of the crop engine                                           *)

\* Some entry point has run and reached cropImage
Called == call.op # "none"

\* The crop size after clamping against the image of the call
ClampedWidth == IF call.passWidth = 0 THEN call.imgWidth
                ELSE Min(call.passWidth, call.imgWidth)
ClampedHeight == IF call.passHeight = 0 THEN call.imgHeight
                 ELSE Min(call.passHeight, call.imgHeight)

NoopInvariance ==
    (Called /\ call.passWidth = 0 /\ call.passHeight = 0) =>
        /\ call.out.err = NoError
        /\ ~call.out.called
        /\ img.w = call.imgWidth
        /\ img.h = call.imgHeight

\* cropImage(img, 0, 0, g) with a Smart gravity whose offset is not zero
NoopWitness ==
    /\ call.op = "cropImage"
    /\ call.cropWidth = 0
    /\ call.cropHeight = 0
    /\ call.gravity.Type = GravitySmart
    /\ call.gravity.X > 0
    /\ call.imgWidth > 1

\* C3: when the clamped crop is at least the source on both axes the call
\* succeeds, crops nothing and keeps the dimensions; and a second call with
\* the arguments of a successful call leaves the image unchanged.
IdempotentSkip ==
    /\ (Called /\ ClampedWidth >= call.imgWidth /\ ClampedHeight >= call.imgHeight) =>
          /\ call.out.err = NoError
          /\ ~call.out.called
          /\ img.w = call.imgWidth
          /\ img.h = call.imgHeight
    /\ call.repeat =>
          /\ call.out.err = NoError
          /\ ~call.out.called
          /\ img.w = call.imgWidth
          /\ img.h = call.imgHeight

\* The second call after a call that did crop the image
IdempotentWitness ==
    /\ call.repeat
    /\ call.prevCalled
    /\ call.cropWidth > 0
    /\ call.cropWidth < call.cropHeight
    /\ img.w = call.cropWidth

\* The rectangle at the Smart offset (half pixels) lies fully inside the source
OffsetFits ==
    /\ call.opts.X >= 0
    /\ call.opts.Y >= 0
    /\ call.opts.X + 2 * ClampedWidth <= 2 * call.imgWidth
    /\ call.opts.Y + 2 * ClampedHeight <= 2 * call.imgHeight

\* C4: with Smart gravity and a crop smaller than the source on some axis,
\* an offset rectangle that fits fully inside the source is cropped at
\* exactly (offsetX, offsetY); otherwise the origin is the Center anchor
\* ((sourceW-cropW)/2, (sourceH-cropH)/2), whatever the offset.  Stated for
\* whole-pixel offsets.
SmartShortcutContainment ==
    (/\ Called
     /\ call.opts.Type = GravitySmart
     /\ call.opts.X % 2 = 0
     /\ call.opts.Y % 2 = 0
     /\ (ClampedWidth < call.imgWidth \/ ClampedHeight < call.imgHeight)
     /\ ~(call.passWidth = 0 /\ call.passHeight = 0)) =>
        /\ call.out.called
        /\ IF OffsetFits
           THEN /\ 2 * call.out.left = call.opts.X
                /\ 2 * call.out.top = call.opts.Y
           ELSE /\ call.out.left = (call.imgWidth - ClampedWidth) \div 2
                /\ call.out.top = (call.imgHeight - ClampedHeight) \div 2

\* C5: crop() passes (cropHeight, cropWidth) to cropImage exactly when the
\* total rotation (accumulated + request) is an odd multiple of 90 degrees,
\* and (cropWidth, cropHeight) otherwise.
RotationSwap ==
    call.op = "crop" =>
        IF ((call.angle + call.rotate) \div 90) % 2 = 1
        THEN call.passWidth = call.cropHeight /\ call.passHeight = call.cropWidth
        ELSE call.passWidth = call.cropWidth /\ call.passHeight = call.cropHeight

\* The fill-down instance of C6: nominal 800x600 on a 400x600 image
FillDownInstance ==
    /\ call.op = "cropToResult"
    /\ call.resizingType = ResizeFillDown
    /\ call.cropWidth = 800
    /\ call.cropHeight = 600
    /\ call.imgWidth = 400
    /\ call.imgHeight = 600

\* C6 as stated: nominal 800x600 on a 400x600 image is corrected to 400x450.
FillDownAspectStated ==
    FillDownInstance => (call.passWidth = 400 /\ call.passHeight = 450)

\* C6 as amended: nominal 800x600 on a 400x600 image is corrected to 400x300
\* (ratio 400/800 = 0.5 applied to the height 600), which is 4:3.
FillDownAspect ==
    FillDownInstance =>
        /\ call.passWidth = 400
        /\ call.passHeight = 300
        /\ 3 * call.passWidth = 4 * call.passHeight

\* C7: an error of img.Crop, on the shortcut path or the resolver path, is
\* what cropImage, crop() and cropToResult() return; it never becomes success.
ErrorPropagation ==
    (Called /\ call.out.cropErr # NoError) =>
        /\ call.out.called
        /\ call.out.err = call.out.cropErr

\* img.Crop failed on the resolver path, under a pipeline stage
ErrorWitness ==
    /\ call.op \in {"crop", "cropToResult"}
    /\ call.out.called
    /\ ~call.out.shortcut
    /\ call.out.cropErr = VipsFailure

\* k is a*n/d rounded to the nearest integer, halves up
IsRounded(k, a, n, d) == 2 * d * k <= 2 * a * n + d /\ 2 * a * n + d < 2 * d * (k + 1)

\* C10: under fill-down, for a positive nominal size, the size handed to
\* cropImage fits the image on both axes, and an axis that was shrunk
\* proportionally is the rounded product of its previous value and the
\* actual-to-nominal ratio of the constrained axis; under another policy the
\* nominal size is passed unchanged.
FillDownClamp ==
    (call.op = "cropToResult" /\ call.cropWidth > 0 /\ call.cropHeight > 0) =>
        IF call.resizingType = ResizeFillDown
        THEN /\ call.passWidth <= call.imgWidth
             /\ call.passHeight <= call.imgHeight
             /\ \E h1 \in 0..call.cropHeight :
                  /\ IF call.cropWidth > call.imgWidth
                     THEN IsRounded(h1, call.cropHeight, call.imgWidth, call.cropWidth)
                     ELSE h1 = call.cropHeight
                  /\ IF h1 > call.imgHeight
                     THEN /\ call.passHeight = call.imgHeight
                          /\ IsRounded(call.passWidth, Min(call.cropWidth, call.imgWidth),
                                       call.imgHeight, h1)
                     ELSE /\ call.passHeight = h1
                          /\ call.passWidth = Min(call.cropWidth, call.imgWidth)
        ELSE /\ call.passWidth = call.cropWidth
             /\ call.passHeight = call.cropHeight

\* Both corrections applied: the width was clamped, then shrunk again
FillDownWitness ==
    /\ call.op = "cropToResult"
    /\ call.resizingType = ResizeFillDown
    /\ call.cropWidth > call.imgWidth
    /\ call.passWidth > 0
    /\ call.passWidth < call.imgWidth
    /\ call.passHeight = call.imgHeight

----------------------------------------------------------------------------
(* package prometheus                                                      *)

\* A call of the package's API is made and returns r
Call(name, r) ==
    /\ lastOp' = name
    /\ ret' = r
    /\ ncalls' = ncalls + 1

Callable == ~crashed /\ ncalls < MaxCalls

\* Inc(), Observe() or Set() on each of the series in keys
Touch(keys) ==
    samples' = [k \in SampleKeys |-> IF k \in keys THEN samples[k] + 1 ELSE samples[k]]

\* A panic ends the process
Panic(name) ==
    /\ crashed' = TRUE
    /\ lastOp' = name
    /\ ncalls' = ncalls + 1
    /\ UNCHANGED <<enabled, collectors, registered, samples, server, cancelled,
                   cancels, ret>>

\* Init()
PrometheusInit ==
    /\ Callable
    /\ UNCHANGED <<cropVars, bind>>
    /\ IF bind = ""
       THEN /\ Call("Init", NoError)
            /\ UNCHANGED <<enabled, collectors, registered, samples, server,
                           cancelled, cancels, crashed>>
       ELSE IF registered \cap InitCollectors # {}
       THEN \* MustRegister panics on a name already registered
            Panic("Init")
       ELSE /\ Call("Init", NoError)
            /\ collectors' = collectors \cup InitCollectors
            /\ registered' = registered \cup InitCollectors
            /\ enabled' = TRUE
            /\ UNCHANGED <<samples, server, cancelled, cancels, crashed>>

\* StartServer(cancel)
StartServer ==
    /\ Callable
    /\ UNCHANGED <<cropVars, bind>>
    /\ IF ~enabled
       THEN /\ Call("StartServer", NoError)
            /\ UNCHANGED <<enabled, collectors, registered, samples, server,
                           cancelled, cancels, crashed>>
       ELSE \E listens \in BOOLEAN :
              /\ Call("StartServer", IF listens THEN NoError ELSE ListenError)
              /\ server' = IF listens THEN "serving" ELSE server
              /\ UNCHANGED <<enabled, collectors, registered, samples,
                             cancelled, cancels, crashed>>

\* The goroutine of StartServer: Serve returns and cancel() is called
ServerStops ==
    /\ ~crashed
    /\ server = "serving"
    /\ server' = "stopped"
    /\ cancelled' = TRUE
    /\ UNCHANGED <<cropVars, bind, enabled, collectors, registered, samples,
                   cancels, ret, crashed, lastOp, ncalls>>

\* A Start* function: when disabled it returns func() {}; otherwise it
\* increments the series in incs and returns a function observing those in obs
Start(name, incs, obs) ==
    /\ UNCHANGED <<cropVars, bind>>
    /\ Call(name, NoError)
    /\ IF ~enabled
       THEN /\ cancels' = cancels \cup {{}}
            /\ UNCHANGED samples
       ELSE /\ cancels' = cancels \cup {obs}
            /\ Touch(incs)
    /\ UNCHANGED <<enabled, collectors, registered, server, cancelled, crashed>>

\* Mutant of StartRequest: the enabled guard is missing, so the nil counter
\* is incremented
StartRequest_Unguarded ==
    /\ Callable
    /\ UNCHANGED <<cropVars, bind>>
    /\ IF "requests_total" \in collectors
       THEN /\ Call("StartRequest", NoError)
            /\ cancels' = cancels \cup {{<<"request_duration_seconds", "">>}}
            /\ Touch({<<"requests_total", "">>})
            /\ UNCHANGED <<enabled, collectors, registered, server, cancelled, crashed>>
       ELSE Panic("StartRequest")

\* StartRequest()
StartRequest ==
    /\ Callable
    /\ Start("StartRequest", {<<"requests_total", "">>},
             {<<"request_duration_seconds", "">>})

\* StartQueueSegment()
StartQueueSegment ==
    /\ Callable
    /\ Start("StartQueueSegment", {}, {<<"request_span_duration_seconds", "queue">>})

\* StartDownloadingSegment()
StartDownloadingSegment ==
    /\ Callable
    /\ Start("StartDownloadingSegment", {},
             {<<"request_span_duration_seconds", "downloading">>,
              <<"download_duration_seconds", "">>})

\* StartProcessingSegment()
StartProcessingSegment ==
    /\ Callable
    /\ Start("StartProcessingSegment", {},
             {<<"request_span_duration_seconds", "processing">>,
              <<"processing_duration_seconds", "">>})

\* A cancel function a Start* function returned is called
InvokeCancel ==
    /\ Callable
    /\ UNCHANGED <<cropVars, bind>>
    /\ \E c \in cancels :
         /\ Call("cancel", NoError)
         /\ Touch(c)
    /\ UNCHANGED <<enabled, collectors, registered, server, cancelled, cancels,
                   crashed>>

\* IncrementErrorsTotal, ObserveBufferSize, SetBufferDefaultSize and
\* SetBufferMaxSize: `if enabled { <collector>.With(label).<op>() }`
Guarded(name, key) ==
    /\ UNCHANGED <<cropVars, bind>>
    /\ Call(name, NoError)
    /\ IF enabled THEN Touch({key}) ELSE UNCHANGED samples
    /\ UNCHANGED <<enabled, collectors, registered, server, cancelled, cancels,
                   crashed>>

\* IncrementErrorsTotal(t)
IncrementErrorsTotal ==
    /\ Callable
    /\ Guarded("IncrementErrorsTotal", <<"errors_total", "timeout">>)

\* ObserveBufferSize(t, size)
ObserveBufferSize ==
    /\ Callable
    /\ Guarded("ObserveBufferSize", <<"buffer_size_bytes", "download">>)

\* SetBufferDefaultSize(t, size)
SetBufferDefaultSize ==
    /\ Callable
    /\ Guarded("SetBufferDefaultSize", <<"buffer_default_size_bytes", "download">>)

\* SetBufferMaxSize(t, size)
SetBufferMaxSize ==
    /\ Callable
    /\ Guarded("SetBufferMaxSize", <<"buffer_max_size_bytes", "download">>)

\* AddGaugeFunc(name, help, f)
AddGaugeFunc ==
    /\ Callable
    /\ UNCHANGED <<cropVars, bind>>
    /\ \E name \in GaugeNames :
         IF ~enabled
         THEN /\ Call("AddGaugeFunc", NoError)
              /\ UNCHANGED <<enabled, collectors, registered, samples, server,
                             cancelled, cancels, crashed>>
         ELSE IF name \in registered
         THEN \* MustRegister panics on a name already registered
              Panic("AddGaugeFunc")
         ELSE /\ Call("AddGaugeFunc", NoError)
              /\ collectors' = collectors \cup {name}
              /\ registered' = registered \cup {name}
              /\ UNCHANGED <<enabled, samples, server, cancelled, cancels, crashed>>

InitMetrics ==
    /\ img = [w |-> 1, h |-> 1]
    /\ call = NoCall
    /\ bind \in BindAddresses
    /\ MetricsIdle

NextMetrics ==
    \/ PrometheusInit
    \/ StartServer
    \/ ServerStops
    \/ StartRequest
    \/ StartQueueSegment
    \/ StartDownloadingSegment
    \/ StartProcessingSegment
    \/ InvokeCancel
    \/ IncrementErrorsTotal
    \/ ObserveBufferSize
    \/ SetBufferDefaultSize
    \/ SetBufferMaxSize
    \/ AddGaugeFunc

SpecMetrics == InitMetrics /\ [][NextMetrics]_vars

\* C9: while metrics are disabled (Init never called, or Init returned early
\* on an empty bind address), whatever calls have been made, no collector is
\* created or registered, no series is incremented, set or observed, no
\* server is started, and every call has returned without error.
MetricsNoopWhenDisabled ==
    ~enabled =>
        /\ collectors = {}
        /\ registered = {}
        /\ \A k \in SampleKeys : samples[k] = 0
        /\ \A c \in cancels : c = {}
        /\ server = "none"
        /\ ~cancelled
        /\ ret = NoError
        /\ ~crashed

\* Disabled after an Init() that returned early, several calls made, the
\* last one a cancel function
MetricsNoopWitness ==
    /\ ~enabled
    /\ bind = ""
    /\ ncalls >= 3
    /\ lastOp = "cancel"

====
